---- MODULE Spec2Model ----
(***************************************************************************)
(* Library bring-up / teardown of libssh (src/init.c): the reference       *)
(* counter _ssh_initialized, the cached status _ssh_init_ret, the static   *)
(* mutex ssh_init_mutex, the explicit entry points ssh_init / ssh_finalize *)
(* and the load / unload hooks auto_init / auto_finalize.                  *)
(*                                                                         *)
(* The model is the HAVE_PTHREAD build (the build in which threads exist   *)
(* and SSH_STATIC_MUTEX_LOCK is pthread_mutex_lock).  Every C statement    *)
(* that touches shared state is one step, so that explicit calls of        *)
(* different threads interleave at statement granularity.                  *)
(***************************************************************************)
EXTENDS Integers, Sequences, FiniteSets

VARIABLES
    ssh_initialized,   \* static int _ssh_initialized          (init.c:62)
    ssh_init_ret,      \* static int _ssh_init_ret             (init.c:65)
    ssh_init_mutex,    \* ssh_init_mutex: 0 free, else the owner (init.c:59)
    pc,                \* per thread: the statement it executes next
    rc,                \* per thread: the local `rc` of _ssh_init (0 outside)
    flag,              \* per thread: the argument constructor / destructor
    phase,             \* "load", "run", "unload", "done": life of the mapping
    ncalls,            \* number of explicit calls begun so far
    at,                \* history, per thread: its ssh_init began at count 0
    inherited,         \* history: the cached result found by the last 0 -> 1
    log,               \* history: calls and returns since the last 0 -> 1
    tally,             \* history: counts over the whole run, see Tally0
    build,             \* "pthread" (HAVE_PTHREAD: pthread.c) or "noop" (noop.c)
    slot,              \* *h, what the lock handle h holds: "NULL", "obj", "junk"
    owner,             \* the pthread_mutex_t that *h points to: 0 free, else owner
    proc,              \* "running", or "exited" once exit() was called
    last,              \* history: the last lock operation and how it ended
    holders,           \* history, per path: threads granted a lock, not unlocked
    made,              \* history: a mutex_init on h returned 0, not destroyed
    ref,               \* the library state of a run of explicit calls only
    mix,               \* the same calls, each through the hook or explicitly
    npath,             \* number of calls made on ref and mix
    nhook              \* number of them that mix made through a hook

\* the library of init.c
initVars == <<ssh_initialized, ssh_init_ret, ssh_init_mutex, pc, rc, flag,
              phase, ncalls, at, inherited, log, tally>>

\* the dynamic locks of threads/pthread.c and threads/noop.c
lockVars == <<build, slot, owner, proc, last, holders, made>>

\* two runs of the same calls of init.c, side by side
pathVars == <<ref, mix, npath, nhook>>

vars == <<ssh_initialized, ssh_init_ret, ssh_init_mutex, pc, rc, flag,
          phase, ncalls, at, inherited, log, tally, lockVars, pathVars>>

----------------------------------------------------------------------------
(* Bounds of the model.                                                    *)

NumThreads == 2

MaxCalls == 5

----------------------------------------------------------------------------
(* Threads.  Loader is the thread on which the platform runs the           *)
(* constructor and the destructor; 1..NumThreads are application threads.  *)

Loader == 0

Threads == 1 .. NumThreads

Procs == {Loader} \cup Threads

(* Status codes a bring-up collaborator may return: 0 is success, any      *)
(* other int (negative or positive) is a failure for `if (rc)`.            *)
Status == {-1, 0, 1}

\* rc = ssh_threads_init(); rc = ssh_crypto_init(); rc = ssh_socket_init();
BringUpOrder == <<"threads_init", "crypto_init", "socket_init">>

\* mutant: the thread backend is finalized before crypto
TeardownOrder_ThreadsFirst ==
    <<"threads_finalize", "crypto_finalize", "socket_cleanup">>

\* ssh_crypto_finalize(); ssh_socket_cleanup(); ssh_threads_finalize();
TeardownOrder == <<"crypto_finalize", "socket_cleanup", "threads_finalize">>

\* the statement of bring-up / teardown a thread executes next
BringUpPc == <<"i_threads", "i_crypto", "i_socket">>

TeardownPc == <<"f_crypto", "f_socket", "f_threads">>

Range(f) == {f[i] : i \in DOMAIN f}

BringUpFns == Range(BringUpOrder)

TeardownFns == Range(TeardownOrder)

InitRetFns == {"ssh_init", "auto_init"}

FinRetFns == {"ssh_finalize", "auto_finalize"}

\* one observed call or return: the function and its status; the return of
\* an ssh_init also tells whether the counter was 0 when that call began
Event(p, f, s) == [fn |-> f, st |-> s, at0 |-> (f = "ssh_init" /\ at[p])]

----------------------------------------------------------------------------
(* Conditions of the code.                                                 *)

\* mutant: off by one, the teardown runs when the counter is found at 2
LastRef_OffByOne(n) == n = 2

\* mutant: every finalize that finds the counter positive tears down
LastRef_AnyRef(n) == n >= 1

\* if (_ssh_initialized == 1) in _ssh_finalize
LastRef(n) == n = 1

\* mutant: the decrement is not guarded
CanDecrement_Always(n) == TRUE

\* if (_ssh_initialized > 0) _ssh_initialized--;
CanDecrement(n) == n > 0

\* mutant: off by one, the second call of an epoch is not seen as nested
Nested_OffByOne(n) == n > 2

\* if (_ssh_initialized > 1)
Nested(n) == n > 1

\* mutant: only a negative status stops the bring-up
Failed_NegativeOnly(r) == r < 0

\* if (rc) after each bring-up step
Failed(r) == r # 0

\* if (_ssh_init_ret < 0) goto _ret;
SkipTeardown(r) == r < 0

----------------------------------------------------------------------------
(* SSH_STATIC_MUTEX_LOCK / SSH_STATIC_MUTEX_UNLOCK, skipped by the hooks.  *)

\* mutant: the lock macro expands to nothing, nobody waits
StaticLock_Empty(p) ==
    IF flag[p] = 0
    THEN ssh_init_mutex' = p
    ELSE UNCHANGED ssh_init_mutex

\* mutant: the lock is taken even when another thread holds it, provided
\* the counter is already positive (a "fast path" for nested calls)
StaticLock_FastPath(p) ==
    IF flag[p] = 0
    THEN /\ ssh_init_mutex = 0 \/ ssh_initialized > 0
         /\ ssh_init_mutex' = p
    ELSE UNCHANGED ssh_init_mutex

\* if (!constructor) SSH_STATIC_MUTEX_LOCK(ssh_init_mutex): blocks until free
StaticLock(p) ==
    IF flag[p] = 0
    THEN /\ ssh_init_mutex = 0
         /\ ssh_init_mutex' = p
    ELSE UNCHANGED ssh_init_mutex

\* mutant: an exit path returns without releasing the mutex
StaticUnlock_Forgot(p) == UNCHANGED ssh_init_mutex

\* if (!constructor) SSH_STATIC_MUTEX_UNLOCK(ssh_init_mutex)
StaticUnlock(p) ==
    IF flag[p] = 0
    THEN ssh_init_mutex' = 0
    ELSE UNCHANGED ssh_init_mutex

----------------------------------------------------------------------------
(* History kept over the whole run (the log is per epoch).                 *)
(*   ups    calls of threads_init, the first step of a bring-up            *)
(*   downs  calls of threads_finalize, the last step of a teardown         *)
(*   negs   bring-ups that ended with a negative status                    *)
(*   excess explicit ssh_init minus explicit ssh_finalize that have taken  *)
(*          effect, in the order they took the mutex; -1 for good once a   *)
(*          prefix of that order held more finalize than init              *)
Tally0 == [ups |-> 0, downs |-> 0, negs |-> 0, excess |-> 0]

\* the tally after p called collaborator f, which returned s
TallyCall(f, s) ==
    [tally EXCEPT !.ups = @ + (IF f = "threads_init" THEN 1 ELSE 0),
                  !.downs = @ + (IF f = "threads_finalize" THEN 1 ELSE 0),
                  !.negs = @ + (IF f \in BringUpFns /\ s < 0 THEN 1 ELSE 0)]

\* the tally after the call of p took effect: d is +1 for an init, -1 for
\* a finalize; the hooks are not explicit calls and do not count
TallyEffect(p, d) ==
    IF p = Loader \/ tally.excess < 0
    THEN tally
    ELSE [tally EXCEPT !.excess = IF @ + d < 0 THEN -1 ELSE @ + d]

----------------------------------------------------------------------------
\* history: no lock operation has been called yet
NoCall ==
    [op |-> "none", path |-> "none", t |-> 0, arg |-> "NULL", rc |-> 0,
     end |-> "return", held |-> FALSE, live |-> FALSE, same |-> TRUE,
     value |-> 0]

\* the lock handle h of the application before any lock operation: no lock
\* object yet, the process runs
LockRest ==
    /\ slot = "NULL"
    /\ owner = 0
    /\ proc = "running"
    /\ last = NoCall
    /\ holders = [api |-> {}, cb |-> {}]
    /\ made = FALSE

\* the statics of init.c as the loader maps them, no call made, no lock
\* operation done (init.c:62, init.c:65)
Lib0 ==
    [count |-> 0, ret |-> 0, status |-> 0, trace |-> <<>>, acq |-> 0,
     rel |-> 0]

PathRest ==
    /\ ref = Lib0
    /\ mix = Lib0
    /\ npath = 0
    /\ nhook = 0

\* the statics of init.c as the loader maps them
LibInit ==
    /\ ssh_initialized = 0
    /\ ssh_init_ret = 0
    /\ ssh_init_mutex = 0
    /\ pc = [p \in Procs |-> "idle"]
    /\ rc = [p \in Procs |-> 0]
    /\ flag = [p \in Procs |-> 0]
    /\ phase = "load"
    /\ ncalls = 0
    /\ at = [p \in Procs |-> FALSE]
    /\ inherited = 0
    /\ log = <<>>
    /\ tally = Tally0

\* the HAVE_PTHREAD build, before the loader has run the constructor
Init ==
    /\ LibInit
    /\ build = "pthread"
    /\ LockRest
    /\ PathRest

----------------------------------------------------------------------------
(* Entry points.                                                           *)

\* auto_init: rc = _ssh_init(1), run by the loader when the library is mapped
auto_init ==
    /\ phase = "load"
    /\ pc[Loader] = "idle"
    /\ pc' = [pc EXCEPT ![Loader] = "i_lock"]
    /\ flag' = [flag EXCEPT ![Loader] = 1]
    /\ rc' = [rc EXCEPT ![Loader] = 0]
    /\ UNCHANGED <<ssh_initialized, ssh_init_ret, ssh_init_mutex, phase,
                   ncalls, at, inherited, log, tally,
                   lockVars, pathVars>>

\* ssh_init: return _ssh_init(0)
ssh_init(t) ==
    /\ phase = "run"
    /\ pc[t] = "idle"
    /\ ncalls < MaxCalls
    /\ ncalls' = ncalls + 1
    /\ pc' = [pc EXCEPT ![t] = "i_lock"]
    /\ flag' = [flag EXCEPT ![t] = 0]
    /\ rc' = [rc EXCEPT ![t] = 0]
    /\ at' = [at EXCEPT ![t] = (ssh_initialized = 0)]
    /\ UNCHANGED <<ssh_initialized, ssh_init_ret, ssh_init_mutex, phase,
                   inherited, log, tally,
                   lockVars, pathVars>>

\* ssh_finalize: return _ssh_finalize(0)
ssh_finalize(t) ==
    /\ phase = "run"
    /\ pc[t] = "idle"
    /\ ncalls < MaxCalls
    /\ ncalls' = ncalls + 1
    /\ pc' = [pc EXCEPT ![t] = "f_lock"]
    /\ flag' = [flag EXCEPT ![t] = 0]
    /\ UNCHANGED <<ssh_initialized, ssh_init_ret, ssh_init_mutex, rc, phase,
                   at, inherited, log, tally,
                   lockVars, pathVars>>

\* auto_finalize: rc = _ssh_finalize(1), run by the loader when the library
\* is unmapped; the platform runs it when no thread is inside the library
auto_finalize ==
    /\ phase = "run"
    /\ \A p \in Procs : pc[p] = "idle"
    /\ phase' = "unload"
    /\ pc' = [pc EXCEPT ![Loader] = "f_lock"]
    /\ flag' = [flag EXCEPT ![Loader] = 1]
    /\ UNCHANGED <<ssh_initialized, ssh_init_ret, ssh_init_mutex, rc, ncalls,
                   at, inherited, log, tally,
                   lockVars, pathVars>>

----------------------------------------------------------------------------
(* _ssh_init(constructor), statement by statement.                         *)

\* if (!constructor) { SSH_STATIC_MUTEX_LOCK(ssh_init_mutex); }
InitLock(p) ==
    /\ pc[p] = "i_lock"
    /\ StaticLock(p)
    /\ pc' = [pc EXCEPT ![p] = "i_inc"]
    /\ UNCHANGED <<ssh_initialized, ssh_init_ret, rc, flag, phase, ncalls, at,
                   inherited, log, tally,
                   lockVars, pathVars>>

\* mutant: a cached failure is returned again without a new bring-up
InitIncrement_Sticky(p) ==
    /\ pc[p] = "i_inc"
    /\ ssh_initialized' = ssh_initialized + 1
    /\ IF Nested(ssh_initialized') \/ ssh_init_ret # 0
       THEN /\ rc' = [rc EXCEPT ![p] = ssh_init_ret]
            /\ pc' = [pc EXCEPT ![p] = "i_ret"]
       ELSE /\ rc' = rc
            /\ pc' = [pc EXCEPT ![p] = BringUpPc[1]]
    /\ log' = IF ssh_initialized = 0 THEN <<>> ELSE log
    /\ inherited' = IF ssh_initialized = 0 THEN ssh_init_ret ELSE inherited
    /\ tally' = TallyEffect(p, 1)
    /\ UNCHANGED <<ssh_init_ret, ssh_init_mutex, flag, phase, ncalls, at,
                   lockVars, pathVars>>

\* _ssh_initialized++;
\* if (_ssh_initialized > 1) { rc = _ssh_init_ret; goto _ret; }
\* (history: a step that finds the counter at 0 starts a new log)
InitIncrement(p) ==
    /\ pc[p] = "i_inc"
    /\ ssh_initialized' = ssh_initialized + 1
    /\ IF Nested(ssh_initialized')
       THEN /\ rc' = [rc EXCEPT ![p] = ssh_init_ret]
            /\ pc' = [pc EXCEPT ![p] = "i_ret"]
       ELSE /\ rc' = rc
            /\ pc' = [pc EXCEPT ![p] = BringUpPc[1]]
    /\ log' = IF ssh_initialized = 0 THEN <<>> ELSE log
    /\ inherited' = IF ssh_initialized = 0 THEN ssh_init_ret ELSE inherited
    /\ tally' = TallyEffect(p, 1)
    /\ UNCHANGED <<ssh_init_ret, ssh_init_mutex, flag, phase, ncalls, at,
                   lockVars, pathVars>>

\* rc = ssh_threads_init(); if (rc) goto _ret;
\* rc = ssh_crypto_init();  if (rc) goto _ret;
\* rc = ssh_socket_init();  if (rc) goto _ret;
InitBringUp(p) ==
    \E i \in DOMAIN BringUpOrder :
        /\ pc[p] = BringUpPc[i]
        /\ \E s \in Status :
              /\ rc' = [rc EXCEPT ![p] = s]
              /\ log' = Append(log, Event(p, BringUpOrder[i], s))
              /\ tally' = TallyCall(BringUpOrder[i], s)
              /\ pc' = [pc EXCEPT ![p] =
                           IF Failed(s) \/ i = Len(BringUpOrder)
                           THEN "i_ret" ELSE BringUpPc[i + 1]]
        /\ UNCHANGED <<ssh_initialized, ssh_init_ret, ssh_init_mutex, flag,
                       phase, ncalls, at, inherited,
                       lockVars, pathVars>>

\* _ret: _ssh_init_ret = rc;
InitStore(p) ==
    /\ pc[p] = "i_ret"
    /\ ssh_init_ret' = rc[p]
    /\ pc' = [pc EXCEPT ![p] = "i_unlock"]
    /\ UNCHANGED <<ssh_initialized, ssh_init_mutex, rc, flag, phase, ncalls,
                   at, inherited, log, tally,
                   lockVars, pathVars>>

\* if (!constructor) { SSH_STATIC_MUTEX_UNLOCK(ssh_init_mutex); } return rc;
\* and the return of the wrapper: ssh_init returns rc, auto_init returns;
\* the frame, and the local rc with it, is gone
InitReturn(p) ==
    /\ pc[p] = "i_unlock"
    /\ StaticUnlock(p)
    /\ pc' = [pc EXCEPT ![p] = "idle"]
    /\ log' = Append(log, Event(p, IF flag[p] = 0 THEN "ssh_init"
                                   ELSE "auto_init", rc[p]))
    /\ phase' = IF p = Loader THEN "run" ELSE phase
    /\ rc' = [rc EXCEPT ![p] = 0]
    /\ at' = [at EXCEPT ![p] = FALSE]
    /\ UNCHANGED <<ssh_initialized, ssh_init_ret, flag, ncalls, inherited,
                   tally,
                   lockVars, pathVars>>

----------------------------------------------------------------------------
(* _ssh_finalize(destructor), statement by statement.                      *)

\* if (!destructor) { SSH_STATIC_MUTEX_LOCK(ssh_init_mutex); }
FinLock(p) ==
    /\ pc[p] = "f_lock"
    /\ StaticLock(p)
    /\ pc' = [pc EXCEPT ![p] = "f_check"]
    /\ UNCHANGED <<ssh_initialized, ssh_init_ret, rc, flag, phase, ncalls, at,
                   inherited, log, tally,
                   lockVars, pathVars>>

\* if (_ssh_initialized == 1) { _ssh_initialized = 0;
\*     if (_ssh_init_ret < 0) goto _ret;  <teardown> }
\* else { if (_ssh_initialized > 0) _ssh_initialized--; }
FinCheck(p) ==
    /\ pc[p] = "f_check"
    /\ IF LastRef(ssh_initialized)
       THEN /\ ssh_initialized' = 0
            /\ pc' = [pc EXCEPT ![p] = IF SkipTeardown(ssh_init_ret)
                                       THEN "f_unlock" ELSE TeardownPc[1]]
       ELSE /\ ssh_initialized' = IF CanDecrement(ssh_initialized)
                                  THEN ssh_initialized - 1
                                  ELSE ssh_initialized
            /\ pc' = [pc EXCEPT ![p] = "f_unlock"]
    /\ tally' = TallyEffect(p, -1)
    /\ UNCHANGED <<ssh_init_ret, ssh_init_mutex, rc, flag, phase, ncalls, at,
                   inherited, log,
                   lockVars, pathVars>>

\* ssh_crypto_finalize(); ssh_socket_cleanup(); ssh_threads_finalize();
\* each returns void
FinTeardown(p) ==
    \E i \in DOMAIN TeardownOrder :
        /\ pc[p] = TeardownPc[i]
        /\ log' = Append(log, Event(p, TeardownOrder[i], 0))
        /\ tally' = TallyCall(TeardownOrder[i], 0)
        /\ pc' = [pc EXCEPT ![p] = IF i = Len(TeardownOrder)
                                   THEN "f_unlock" ELSE TeardownPc[i + 1]]
        /\ UNCHANGED <<ssh_initialized, ssh_init_ret, ssh_init_mutex, rc, flag,
                       phase, ncalls, at, inherited,
                       lockVars, pathVars>>

\* _ret: if (!destructor) { SSH_STATIC_MUTEX_UNLOCK(ssh_init_mutex); }
\* return 0;  and the return of the wrapper
FinReturn(p) ==
    /\ pc[p] = "f_unlock"
    /\ StaticUnlock(p)
    /\ pc' = [pc EXCEPT ![p] = "idle"]
    /\ log' = Append(log, Event(p, IF flag[p] = 0 THEN "ssh_finalize"
                                   ELSE "auto_finalize", 0))
    /\ phase' = IF p = Loader THEN "done" ELSE phase
    /\ UNCHANGED <<ssh_initialized, ssh_init_ret, rc, flag, ncalls, at,
                   inherited, tally,
                   lockVars, pathVars>>

----------------------------------------------------------------------------
Next ==
    \/ auto_init
    \/ auto_finalize
    \/ \E t \in Threads : ssh_init(t)
    \/ \E t \in Threads : ssh_finalize(t)
    \/ \E p \in Procs : InitLock(p)
    \/ \E p \in Procs : InitIncrement(p)
    \/ \E p \in Procs : InitBringUp(p)
    \/ \E p \in Procs : InitStore(p)
    \/ \E p \in Procs : InitReturn(p)
    \/ \E p \in Procs : FinLock(p)
    \/ \E p \in Procs : FinCheck(p)
    \/ \E p \in Procs : FinTeardown(p)
    \/ \E p \in Procs : FinReturn(p)

Spec == Init /\ [][Next]_vars

----------------------------------------------------------------------------
(* Reading the log.                                                        *)

\* the names of the events of a sequence
Names(es) == [i \in DOMAIN es |-> es[i].fn]

\* the events of the log made by the functions in S, in order
Only(S) == SelectSeq(log, LAMBDA e : e.fn \in S)

\* the collaborator calls of the epoch, bring-up and teardown
Collab == Only(BringUpFns \cup TeardownFns)

\* the bring-up calls of the epoch
BringUps == Only(BringUpFns)

\* the returns of the API calls of the epoch, in the order they returned
Returns == Only(InitRetFns \cup FinRetFns)

\* the returns of the init calls (explicit or hook) of the epoch
InitReturns == Only(InitRetFns)

\* how many times fn was called in the epoch
Count(f) == Len(Only({f}))

\* a thread is inside _ssh_init / _ssh_finalize, past the lock statement
InSection(p) == pc[p] \notin {"idle", "i_lock", "f_lock"}

\* no thread is between the lock and the unlock statement
NoSection == \A p \in Procs : ~InSection(p)

\* all three bring-up steps of the epoch were called and returned 0
CleanBringUp ==
    /\ Len(BringUps) = Len(BringUpOrder)
    /\ \A i \in DOMAIN BringUps : BringUps[i].st = 0

\* the status of the bring-up of the epoch: that of its first failing step,
\* or 0 when no step failed
Outcome ==
    IF \E i \in DOMAIN BringUps : BringUps[i].st # 0
    THEN BringUps[CHOOSE i \in DOMAIN BringUps :
                      /\ BringUps[i].st # 0
                      /\ \A j \in 1 .. (i - 1) : BringUps[j].st = 0].st
    ELSE 0

\* a clean epoch is over: the bring-up succeeded, the counter is back at 0
\* and the finalize that brought it there has returned
CleanEpochOver == CleanBringUp /\ ssh_initialized = 0 /\ NoSection

----------------------------------------------------------------------------
(* C1 as stated: on a clean epoch the collaborators are called in the      *)
(* order threads_init, crypto_init, socket_init, and then socket_cleanup,  *)
(* crypto_finalize, threads_finalize: the teardown is the exact reverse of *)
(* the bring-up.                                                           *)
C1_ReverseTeardown ==
    CleanEpochOver =>
        Names(Collab) = <<"threads_init", "crypto_init", "socket_init",
                          "socket_cleanup", "crypto_finalize",
                          "threads_finalize">>

(* C1 amended: on a clean epoch the collaborators are called in the order  *)
(* threads_init, crypto_init, socket_init, and then crypto_finalize,       *)
(* socket_cleanup, threads_finalize: the thread backend is brought up      *)
(* first and torn down last, crypto is torn down before the sockets.       *)
C1_CallOrder ==
    CleanEpochOver =>
        Names(Collab) = <<"threads_init", "crypto_init", "socket_init",
                          "crypto_finalize", "socket_cleanup",
                          "threads_finalize">>

\* a clean epoch begun by an explicit ssh_init is over, its teardown ran
C1_Witness ==
    /\ CleanEpochOver
    /\ Len(Returns) = 2
    /\ Names(Returns) = <<"ssh_init", "ssh_finalize">>
    /\ Len(Collab) = 6

----------------------------------------------------------------------------
(* C2: when T >= 1 ssh_init calls that all began while the counter was 0   *)
(* have returned and nothing else was called, the bring-up ran exactly     *)
(* once (threads_init once, crypto_init and socket_init at most once, all  *)
(* before the first return, so inside a single call), the T calls returned *)
(* the same status and the counter is T.                                   *)
C2_RacingInits ==
    ( /\ NoSection
      /\ Len(Returns) >= 1
      /\ \A i \in DOMAIN Returns :
            Returns[i].fn = "ssh_init" /\ Returns[i].at0 )
    =>
    ( /\ ssh_initialized = Len(Returns)
      /\ \A i, j \in DOMAIN Returns : Returns[i].st = Returns[j].st
      /\ Count("threads_init") = 1
      /\ Count("crypto_init") <= 1
      /\ Count("socket_init") <= 1
      /\ Count("crypto_finalize") + Count("socket_cleanup")
             + Count("threads_finalize") = 0
      /\ \A i \in DOMAIN log :
            log[i].fn \in BringUpFns =>
                \A j \in 1 .. i : log[j].fn \in BringUpFns )

\* two ssh_init calls that both began at count 0 have returned a failure
C2_Witness ==
    /\ NoSection
    /\ Len(Returns) = 2
    /\ \A i \in DOMAIN Returns : Returns[i].fn = "ssh_init" /\ Returns[i].at0
    /\ Returns[2].st # 0
    /\ ssh_initialized = 2

----------------------------------------------------------------------------
(* C3: a thread making an explicit call is between the lock and the unlock *)
(* statement (where every access to the counter and to the cached result   *)
(* is) only while it holds ssh_init_mutex, so at most one thread is there  *)
(* at a time; while a thread runs the bring-up the counter stays at 1 and  *)
(* while a thread runs the teardown it stays at 0, so each 0 -> 1 and each *)
(* 1 -> 0 transition has one thread at work and the two never overlap.     *)
C3_MutualExclusion ==
    /\ \A t \in Threads : InSection(t) => ssh_init_mutex = t
    /\ \A t, u \in Threads : InSection(t) /\ InSection(u) => t = u
    /\ \A t \in Threads :
          /\ pc[t] \in Range(BringUpPc) => ssh_initialized = 1
          /\ pc[t] \in Range(TeardownPc) => ssh_initialized = 0
    /\ \A t, u \in Threads :
          ~(pc[t] \in Range(BringUpPc) /\ pc[u] \in Range(TeardownPc))

\* a thread is in the middle of the bring-up while another thread waits at
\* the lock statement of ssh_finalize
C3_Witness ==
    \E t, u \in Threads :
        /\ pc[t] = "i_crypto"
        /\ ssh_init_mutex = t
        /\ pc[u] = "f_lock"

----------------------------------------------------------------------------
\* the bring-up of the epoch failed: one of its steps returned nonzero
FailedBringUp == \E i \in DOMAIN BringUps : BringUps[i].st # 0

(* C4 as stated: when the bring-up of an epoch failed with any nonzero     *)
(* status, positive or negative, no finalize of that epoch calls           *)
(* socket_cleanup, crypto_finalize or threads_finalize.                    *)
C4_FailedEpochNoTeardown ==
    (FailedBringUp /\ phase = "run") =>
        /\ Only(TeardownFns) = <<>>
        /\ \A t \in Threads : pc[t] \notin Range(TeardownPc)

----------------------------------------------------------------------------
(* C5: the bring-up calls of an epoch are a prefix of threads_init,        *)
(* crypto_init, socket_init; a step is called only if every step before it *)
(* returned 0, so nothing is called after a failing step; and the call     *)
(* that ran the bring-up returns, and leaves in the cached result, 0 when  *)
(* all three steps returned 0 and else the status of the first failing     *)
(* step.                                                                   *)
C5_StopAtFirstFailure ==
    /\ Len(BringUps) <= Len(BringUpOrder)
    /\ \A i \in DOMAIN BringUps :
          /\ BringUps[i].fn = BringUpOrder[i]
          /\ \A j \in 1 .. (i - 1) : BringUps[j].st = 0
    /\ InitReturns # <<>> =>
          /\ InitReturns[1].st = Outcome
          /\ ssh_init_ret = Outcome
          /\ FailedBringUp \/ CleanBringUp
          /\ Outcome = 0 <=> CleanBringUp

\* an explicit ssh_init ran threads_init and crypto_init, crypto_init
\* failed with a positive status, socket_init was not called, and the call
\* returned that status
C5_Witness ==
    /\ Len(BringUps) = 2
    /\ BringUps[2].st = 1
    /\ InitReturns # <<>>
    /\ InitReturns[1].fn = "ssh_init"
    /\ InitReturns[1].st = 1

----------------------------------------------------------------------------
(* C6: an ssh_init that finds the counter at 0 runs the bring-up again     *)
(* from threads_init whatever the cached result left by the epoch before,  *)
(* and returns the status of that new bring-up (0 when every step          *)
(* succeeds), also when the epoch before left a failure in the cache.      *)
C6_FreshEpochRetries ==
    (inherited # 0 /\ InitReturns # <<>>) =>
        /\ log[1].fn = "threads_init"
        /\ InitReturns[1].st = Outcome
        /\ CleanBringUp => InitReturns[1].st = 0 /\ ssh_init_ret = 0

\* the epoch before failed, the explicit ssh_init of this epoch brought
\* everything up and returned 0
C6_Witness ==
    /\ inherited # 0
    /\ InitReturns # <<>>
    /\ InitReturns[1].fn = "ssh_init"
    /\ InitReturns[1].st = 0
    /\ CleanBringUp

----------------------------------------------------------------------------
(* C7: within an epoch only the first init call runs collaborators (every  *)
(* bring-up call precedes the first return, threads_init is called once),  *)
(* every later ssh_init returns the status the first one returned, and the *)
(* cached result keeps that value for as long as the counter is positive.  *)
C7_CachedResultFixed ==
    InitReturns # <<>> =>
        /\ \A i \in DOMAIN InitReturns :
              InitReturns[i].st = InitReturns[1].st
        /\ Count("threads_init") = 1
        /\ \A i \in DOMAIN log :
              log[i].fn \in BringUpFns =>
                  \A j \in 1 .. i : log[j].fn \in BringUpFns
        /\ ssh_initialized >= 1 => ssh_init_ret = InitReturns[1].st

\* the first ssh_init of the epoch failed and two nested calls returned the
\* same failure without calling a collaborator
C7_Witness ==
    /\ Len(InitReturns) = 3
    /\ InitReturns[1].fn = "ssh_init"
    /\ InitReturns[1].st = -1
    /\ InitReturns[3].st = -1
    /\ Len(BringUps) = 1
    /\ ssh_initialized = 3

----------------------------------------------------------------------------
\* the returns of the epoch are those of n ssh_init followed by n
\* ssh_finalize, all explicit
Balanced(n) ==
    /\ Len(Returns) = 2 * n
    /\ \A i \in 1 .. n : Returns[i].fn = "ssh_init"
    /\ \A i \in (n + 1) .. (2 * n) : Returns[i].fn = "ssh_finalize"

(* C8: when, from the counter at 0, N >= 1 ssh_init and then N             *)
(* ssh_finalize have returned and no bring-up step failed, the counter is  *)
(* 0 and each of the three collaborators was brought up exactly once and   *)
(* torn down exactly once; when nothing has been called (N = 0) the        *)
(* counter is 0 and no collaborator was called.                            *)
C8_Balance ==
    \A n \in 0 .. MaxCalls :
        (Balanced(n) /\ NoSection /\ ~FailedBringUp) =>
            /\ ssh_initialized = 0
            /\ \A f \in BringUpFns \cup TeardownFns :
                  Count(f) = IF n = 0 THEN 0 ELSE 1

\* two ssh_init and then two ssh_finalize have returned
C8_Witness ==
    /\ Balanced(2)
    /\ NoSection
    /\ CleanBringUp
    /\ Count("threads_finalize") = 1

----------------------------------------------------------------------------
\* thread p executes the if / else of _ssh_finalize in this step
ChecksCounter(p) == pc[p] = "f_check" /\ pc'[p] # "f_check"

(* C9: the counter is never negative; a finalize that finds the counter at *)
(* 0 leaves the counter and the cached result as they are, whatever the    *)
(* cached result is, goes straight to the unlock statement without calling *)
(* a collaborator, and every finalize returns 0.                           *)
C9_FloorIsNoop ==
    /\ [](ssh_initialized >= 0)
    /\ [](\A i \in DOMAIN log : log[i].fn \in FinRetFns => log[i].st = 0)
    /\ [][\A p \in Procs :
            (ChecksCounter(p) /\ ssh_initialized = 0) =>
                /\ ssh_initialized' = 0
                /\ ssh_init_ret' = ssh_init_ret
                /\ log' = log
                /\ pc'[p] = "f_unlock"]_vars

\* an ssh_finalize has found the counter at 0, with a failure left in the
\* cache, and has returned: the last two events are returns of finalize,
\* the second ran no teardown and did not bring the counter down to 0
C9_Witness ==
    /\ Len(log) >= 2
    /\ log[Len(log)].fn = "ssh_finalize"
    /\ log[Len(log) - 1].fn = "ssh_finalize"
    /\ ssh_init_ret = 1
    /\ ssh_initialized = 0
    /\ NoSection

----------------------------------------------------------------------------
(* C10: a finalize that finds the counter above 1 lowers it by exactly one *)
(* and goes straight to the unlock statement, leaving the cached result    *)
(* alone and calling no collaborator; a thread enters the teardown only    *)
(* from a finalize that found the counter at 1.                            *)
C10_NestedFinalize ==
    /\ [][\A p \in Procs :
            (ChecksCounter(p) /\ ssh_initialized > 1) =>
                /\ ssh_initialized' = ssh_initialized - 1
                /\ ssh_init_ret' = ssh_init_ret
                /\ log' = log
                /\ pc'[p] = "f_unlock"]_vars
    /\ [][\A p \in Procs :
            (pc'[p] \in Range(TeardownPc) /\ pc[p] \notin Range(TeardownPc))
                => (ChecksCounter(p) /\ ssh_initialized = 1)]_vars
    /\ [][Len(Only(TeardownFns)') > Len(Only(TeardownFns)) =>
            \E p \in Procs : pc[p] \in Range(TeardownPc)]_vars

\* an ssh_finalize has found the counter above 1 and is about to unlock
C10_Witness ==
    \E t \in Threads :
        /\ pc[t] = "f_unlock"
        /\ ssh_init_mutex = t
        /\ ssh_initialized >= 1

----------------------------------------------------------------------------
\* within an epoch threads_init and threads_finalize are called at most
\* once, and never more teardowns than bring-ups over the whole run
AlternationBase ==
    /\ Count("threads_init") <= 1
    /\ Count("threads_finalize") <= 1
    /\ Count("threads_finalize") = 1 =>
          /\ Count("threads_init") = 1
          /\ \A i, j \in DOMAIN log :
                (log[i].fn = "threads_init" /\ log[j].fn \in TeardownFns)
                    => i < j
    /\ tally.downs <= tally.ups

(* C16 as stated: bring-up and teardown strictly alternate: threads_init   *)
(* is not called again before a finalize has brought the counter back to   *)
(* 0, the teardown is not run twice without a bring-up in between, and at  *)
(* every point the number of teardowns run is at most the number of        *)
(* bring-ups run and differs from it by at most one.                       *)
C16_StrictAlternation ==
    /\ AlternationBase
    /\ tally.ups - tally.downs <= 1

(* C16 amended: threads_init is not called again before a finalize has     *)
(* brought the counter back to 0, the teardown is not run twice without a  *)
(* bring-up in between, and at every point the number of teardowns run is  *)
(* at most the number of bring-ups run; the bring-ups exceed the teardowns *)
(* by the number of bring-ups that failed with a negative status (those    *)
(* are never torn down), plus at most one.                                 *)
C16_Alternation ==
    /\ AlternationBase
    /\ tally.ups - tally.downs - tally.negs \in {0, 1}

\* three bring-ups have run, one was torn down and one failed with a
\* negative status and was not: two bring-ups ahead of the teardowns
C16_Witness ==
    /\ tally.ups = 3
    /\ tally.downs = 1
    /\ tally.negs = 1
    /\ phase = "run"

----------------------------------------------------------------------------
\* so far no prefix of the explicit calls, in the order they took effect,
\* held more ssh_finalize than ssh_init
BalancedUse == tally.excess >= 0

(* C17: once auto_init has run, and as long as no prefix of the explicit   *)
(* calls holds more ssh_finalize than ssh_init, the counter stays at 1 or  *)
(* above, no application thread runs a bring-up or teardown step (the only *)
(* bring-up of the run is that of auto_init and the only teardown that of  *)
(* auto_finalize), and every ssh_init returns the status auto_init cached. *)
C17_HookOwnsLifecycle ==
    BalancedUse =>
        /\ \A t \in Threads :
              pc[t] \notin Range(BringUpPc) \cup Range(TeardownPc)
        /\ tally.ups <= 1
        /\ phase = "run" =>
              /\ ssh_initialized >= 1
              /\ NoSection => ssh_initialized = 1 + tally.excess
              /\ tally.ups = 1 /\ tally.downs = 0
              /\ Only(TeardownFns) = <<>>
              /\ InitReturns[1].fn = "auto_init"
              /\ \A i \in DOMAIN InitReturns :
                    InitReturns[i].st = InitReturns[1].st
              /\ ssh_init_ret = InitReturns[1].st
        /\ tally.downs > 0 => phase \in {"unload", "done"}

\* after a failed auto_init two ssh_init and two ssh_finalize have
\* returned, balanced, and the library is still loaded
C17_Witness ==
    /\ BalancedUse
    /\ phase = "run"
    /\ NoSection
    /\ tally.excess = 0
    /\ Len(Only({"ssh_init"})) = 2
    /\ Len(Only({"ssh_finalize"})) = 2
    /\ InitReturns[1].st = -1

----------------------------------------------------------------------------
(* Fair scheduling of the application threads: a thread that can take a    *)
(* step of _ssh_init or _ssh_finalize eventually takes it, and a thread    *)
(* waiting in pthread_mutex_lock gets the mutex if it stays free.  A run   *)
(* of the model makes finitely many calls, so the mutex does stay free     *)
(* once the other threads are done: weak fairness is all that is assumed.  *)
(* The collaborators return (InitBringUp and FinTeardown are steps like    *)
(* the others).                                                            *)
ThreadStep(t) ==
    \/ InitIncrement(t) \/ InitBringUp(t) \/ InitStore(t) \/ InitReturn(t)
    \/ FinCheck(t) \/ FinTeardown(t) \/ FinReturn(t)

Fairness ==
    \A t \in Threads :
        /\ WF_vars(InitLock(t) \/ FinLock(t))
        /\ WF_vars(ThreadStep(t))

SpecFair == Spec /\ Fairness

\* thread t is inside an explicit call
InCall(t) == pc[t] # "idle"

(* C18: every explicit ssh_init() and ssh_finalize() takes the static init *)
(* mutex exactly once, at its first step, and releases it exactly once, at *)
(* its return, on every exit path: a thread holds the mutex exactly while  *)
(* it is past the lock step of a call, so the mutex is free whenever no    *)
(* explicit call is in progress; and under fair scheduling every explicit  *)
(* call eventually returns: each thread is outside a call again and again. *)
C18_LockedOncePerCall ==
    /\ [](\A t \in Threads : (ssh_init_mutex = t) <=> InSection(t))
    /\ []((\A t \in Threads : ~InCall(t)) => ssh_init_mutex = 0)
    /\ [][\A t \in Threads :
            /\ (ssh_init_mutex # t /\ ssh_init_mutex' = t)
                   => pc[t] \in {"i_lock", "f_lock"}
            /\ (InCall(t) /\ ~InCall(t)')
                   => ssh_init_mutex = t /\ ssh_init_mutex' = 0
            /\ (ssh_init_mutex = t /\ ssh_init_mutex' # t)
                   => ~InCall(t)']_vars
    /\ \A t \in Threads : []<>(~InCall(t))

\* every exit path named by the claim has been taken in this epoch or the
\* one before, and a thread waits for the mutex another thread holds
C18_Witness ==
    /\ \E t, u \in Threads :
          /\ pc[t] \in {"i_lock", "f_lock"}
          /\ ssh_init_mutex = u
          /\ pc[u] = "f_unlock"
          /\ ssh_initialized = 0
    /\ tally.negs > 0
    /\ tally.excess < 0

----------------------------------------------------------------------------
(* Dynamic locks: threads/pthread.c (HAVE_PTHREAD) and threads/noop.c.     *)
(* The application owns one lock handle, a variable  void *h;  and passes  *)
(* &h, or NULL, to the operations.  slot is the content of h.  Every       *)
(* operation is one step: a pthread_mutex_lock that has to wait is a step  *)
(* that is not enabled.                                                    *)

\* errno values (errno.h): exit(EINVAL) at pthread.c:133, return ENOMEM at
\* pthread.c:49, the others are returned by the pthread_mutex_* calls
EPERM == 1

ENOMEM == 12

EBUSY == 16

EINVAL == 22

EDEADLK == 35

Errno == {EPERM, ENOMEM, EBUSY, EINVAL, EDEADLK}

\* the int a lock operation returns: 0 or an errno value
Rc == {0} \cup Errno

\* the statuses an undefined pthread call is modelled to return: success,
\* or a failure (EINVAL is what glibc returns for a mutex of unknown kind)
UndefinedRc == {0, EINVAL}

\* the library is built from pthread.c when HAVE_PTHREAD is defined, and
\* from noop.c otherwise
Builds == {"pthread", "noop"}

\* the void **mutex an application passes
Args == {"&h", "NULL"}

\* mutant: the mutex type lets the owner lock again
MutexType_Recursive == "recursive"

\* pthread_mutexattr_settype(&mutex_attr, PTHREAD_MUTEX_ERRORCHECK)
MutexType == "errorcheck"

\* mutant: only a negative status is fatal
MutexFatal_Negative(r) == r < 0

\* if (rc) { exit(rc); } in ssh_mutex_init, _lock, _unlock, _destroy
MutexFatal(r) == r # 0

(* What ptr points to.  "&h" is the address of the handle and holds slot; "&mutex" is    *)
(* the address of the parameter `mutex` of the calling function and holds  *)
(* its value, param.  Anything else is not the address of a pointer.       *)
Deref(ptr, param) ==
    CASE ptr = "&mutex" -> param
      [] ptr = "&h" -> slot
      [] OTHER -> "junk"

(* pthread_mutex_lock(m) by thread t returning r.  On the object that      *)
(* pthread_mutex_init made, the error-checking type returns EDEADLK to the *)
(* owner and makes any other thread wait until the mutex is free.  On      *)
(* memory that is no initialised pthread_mutex_t the behaviour is          *)
(* undefined: any status, and the bytes at m may be written; when m is the *)
(* handle itself, that is the pointer h holds.                             *)
pthread_mutex_lock(t, m, r) ==
    IF m = "obj"
    THEN /\ slot' = slot
         /\ IF owner = t
            THEN /\ r = IF MutexType = "errorcheck" THEN EDEADLK ELSE 0
                 /\ owner' = owner
            ELSE /\ owner = 0
                 /\ r = 0
                 /\ owner' = t
    ELSE /\ r \in UndefinedRc
         /\ owner' = owner
         /\ slot' \in IF m = "&h" THEN {slot, "junk"} ELSE {slot}

(* pthread_mutex_unlock(m) by thread t returning r: the error-checking     *)
(* type returns EPERM to a thread that does not own the mutex.             *)
pthread_mutex_unlock(t, m, r) ==
    IF m = "obj"
    THEN /\ slot' = slot
         /\ IF owner = t
            THEN /\ r = 0
                 /\ owner' = 0
            ELSE /\ r = IF MutexType = "errorcheck" THEN EPERM ELSE 0
                 /\ owner' = owner
    ELSE /\ r \in UndefinedRc
         /\ owner' = owner
         /\ slot' \in IF m = "&h" THEN {slot, "junk"} ELSE {slot}

(* ssh_pthread_mutex_init(mutex) with mutex = &h, returning r or ending    *)
(* the process (e = "exit") with code r.                                   *)
ssh_pthread_mutex_init(r, e) ==
    \/ \* rc = pthread_mutexattr_init(&mutex_attr); if (rc) exit(rc);
       /\ r = ENOMEM /\ e = "exit"
       /\ UNCHANGED <<slot, owner>>
    \/ \* rc = pthread_mutexattr_settype(...); if (rc) exit(rc);
       /\ r = EINVAL /\ e = "exit"
       /\ UNCHANGED <<slot, owner>>
    \/ \* the malloc of the pthread_mutex_t returns NULL: return ENOMEM;
       /\ r = ENOMEM /\ e = "return"
       /\ slot' = "NULL"
       /\ UNCHANGED owner
    \/ \* rc = pthread_mutex_init on the pointee; if (rc) it is freed and
       \* NULL is stored in h; return rc;
       /\ r \in {ENOMEM, EPERM} /\ e = "return"
       /\ slot' = "NULL"
       /\ UNCHANGED owner
    \/ /\ r = 0 /\ e = "return"
       /\ slot' = "obj"
       /\ owner' = 0

(* ssh_pthread_mutex_destroy(mutex) with mutex = &h:                       *)
(* rc = pthread_mutex_destroy of the pointee, free it, store NULL in h.     *)
(* Destroying a locked mutex, or what is no mutex, is undefined.           *)
ssh_pthread_mutex_destroy(r) ==
    /\ IF slot = "obj"
       THEN r \in IF owner = 0 THEN {0} ELSE {0, EBUSY}
       ELSE r \in UndefinedRc
    /\ slot' = "NULL"
    /\ owner' = 0

\* return pthread_mutex_lock of what mutex points to
ssh_pthread_mutex_lock(t, mutex, param, r) ==
    pthread_mutex_lock(t, Deref(mutex, param), r)

\* return pthread_mutex_unlock of what mutex points to
ssh_pthread_mutex_unlock(t, mutex, param, r) ==
    pthread_mutex_unlock(t, Deref(mutex, param), r)

\* return (unsigned long) pthread_self();
ssh_pthread_thread_id(t) == t

\* mutant: the null backend checks its argument
threads_noop_Checked(lock) == IF lock = "NULL" THEN EINVAL ELSE 0

\* static int threads_noop(void **lock) { (void)lock; return 0; }
threads_noop(lock) == 0

\* static unsigned long threads_id_noop(void) { return 1; }
threads_id_noop == 1

\* noop.c: return &ssh_threads_noop;
ssh_threads_get_noop == "threads_noop"

\* pthread.c: return &ssh_threads_pthread;
ssh_threads_get_pthread == "threads_pthread"

\* the .type of the backend ssh_threads_get_default() returns: pthread.c
\* and noop.c each define the function, the build has one of them
ssh_threads_get_default ==
    IF build = "pthread" THEN ssh_threads_get_pthread ELSE ssh_threads_get_noop

----------------------------------------------------------------------------
(* History of the lock operations.                                         *)

\* the operation returned to its caller with status 0
Granted(r, e) == e = "return" /\ r = 0

\* a is the handle, made by a mutex_init that returned 0, not destroyed
\* since, and still holding what mutex_init stored
Live(a) == a = "&h" /\ made /\ (build = "pthread" => slot = "obj")

(* The end of operation op, called by thread t with argument a through     *)
(* path ("cb": the callbacks of ssh_threads_get_default(), "api": the      *)
(* ssh_mutex_* functions): status r, e = "return" or "exit", ret the set   *)
(* of values handed back to the caller (empty for a void function).        *)
Finish(op, path, t, a, r, e, ret) ==
    /\ last' = [op |-> op, path |-> path, t |-> t, arg |-> a, rc |-> r,
                end |-> e, held |-> t \in holders[path], live |-> Live(a),
                same |-> (slot' = slot /\ owner' = owner), value |-> ret]
    /\ proc' = IF e = "exit" THEN "exited" ELSE proc
    /\ holders' =
          CASE Granted(r, e) /\ a = "&h" /\ op = "lock" ->
                   [holders EXCEPT ![path] = @ \cup {t}]
            [] Granted(r, e) /\ a = "&h" /\ op = "unlock" ->
                   [holders EXCEPT ![path] = @ \ {t}]
            [] e = "return" /\ a = "&h" /\ op \in {"init", "destroy"} ->
                   [api |-> {}, cb |-> {}]
            [] OTHER -> holders
    /\ made' =
          CASE e = "return" /\ a = "&h" /\ op = "init" -> r = 0
            [] e = "return" /\ a = "&h" /\ op = "destroy" -> FALSE
            [] OTHER -> made
    /\ UNCHANGED <<build, initVars, pathVars>>

----------------------------------------------------------------------------
(* The callbacks of the default backend, called by the application as      *)
(* cb->mutex_init(&h) and so on, cb = ssh_threads_get_default().  With     *)
(* the pthread backend a NULL argument is dereferenced: undefined.         *)

CbInit(t, a) ==
    /\ proc = "running"
    /\ \E r \in Rc, e \in {"return", "exit"} :
          /\ IF ssh_threads_get_default = "threads_noop"
             THEN /\ r = threads_noop(a) /\ e = "return"
                  /\ UNCHANGED <<slot, owner>>
             ELSE IF a = "&h"
                  THEN ssh_pthread_mutex_init(r, e)
                  ELSE /\ r \in UndefinedRc /\ e = "return"
                       /\ UNCHANGED <<slot, owner>>
          /\ Finish("init", "cb", t, a, r, e, {r})

CbDestroy(t, a) ==
    /\ proc = "running"
    /\ \E r \in Rc :
          /\ IF ssh_threads_get_default = "threads_noop"
             THEN r = threads_noop(a) /\ UNCHANGED <<slot, owner>>
             ELSE IF a = "&h"
                  THEN ssh_pthread_mutex_destroy(r)
                  ELSE r \in UndefinedRc /\ UNCHANGED <<slot, owner>>
          /\ Finish("destroy", "cb", t, a, r, "return", {r})

CbLock(t, a) ==
    /\ proc = "running"
    /\ \E r \in Rc :
          /\ IF ssh_threads_get_default = "threads_noop"
             THEN r = threads_noop(a) /\ UNCHANGED <<slot, owner>>
             ELSE ssh_pthread_mutex_lock(t, a, a, r)
          /\ Finish("lock", "cb", t, a, r, "return", {r})

CbUnlock(t, a) ==
    /\ proc = "running"
    /\ \E r \in Rc :
          /\ IF ssh_threads_get_default = "threads_noop"
             THEN r = threads_noop(a) /\ UNCHANGED <<slot, owner>>
             ELSE ssh_pthread_mutex_unlock(t, a, a, r)
          /\ Finish("unlock", "cb", t, a, r, "return", {r})

CbThreadId(t) ==
    /\ proc = "running"
    /\ UNCHANGED <<slot, owner>>
    /\ Finish("thread_id", "cb", t, "NULL", 0, "return",
              {IF ssh_threads_get_default = "threads_noop"
               THEN threads_id_noop ELSE ssh_pthread_thread_id(t)})

----------------------------------------------------------------------------
(* The threads interface of pthread.c; noop.c defines none of these.       *)

\* void ssh_mutex_init(void **mutex)
ssh_mutex_init(t, mutex) ==
    /\ build = "pthread"
    /\ proc = "running"
    /\ \E r \in Rc, e \in {"return", "exit"} :
          /\ IF mutex = "NULL"
             THEN /\ r = EINVAL /\ e = "exit"
                  /\ UNCHANGED <<slot, owner>>
             ELSE \E e0 \in {"return", "exit"} :
                     /\ ssh_pthread_mutex_init(r, e0)
                     /\ e = IF e0 = "exit" \/ MutexFatal(r)
                            THEN "exit" ELSE "return"
          /\ Finish("init", "api", t, mutex, r, e, {})

\* void ssh_mutex_lock(void **mutex):
\* rc = ssh_pthread_mutex_lock((void **)&mutex);
ssh_mutex_lock(t, mutex) ==
    /\ build = "pthread"
    /\ proc = "running"
    /\ \E r \in Rc :
          /\ IF mutex = "NULL"
             THEN r = EINVAL /\ UNCHANGED <<slot, owner>>
             ELSE ssh_pthread_mutex_lock(t, "&mutex", mutex, r)
          /\ Finish("lock", "api", t, mutex, r,
                    IF mutex = "NULL" \/ MutexFatal(r)
                    THEN "exit" ELSE "return", {})

\* void ssh_mutex_unlock(void **mutex):
\* rc = ssh_pthread_mutex_unlock((void **)&mutex);
ssh_mutex_unlock(t, mutex) ==
    /\ build = "pthread"
    /\ proc = "running"
    /\ \E r \in Rc :
          /\ IF mutex = "NULL"
             THEN r = EINVAL /\ UNCHANGED <<slot, owner>>
             ELSE ssh_pthread_mutex_unlock(t, "&mutex", mutex, r)
          /\ Finish("unlock", "api", t, mutex, r,
                    IF mutex = "NULL" \/ MutexFatal(r)
                    THEN "exit" ELSE "return", {})

\* void ssh_mutex_destroy(void **mutex):
\* rc = ssh_pthread_mutex_destroy(mutex);
ssh_mutex_destroy(t, mutex) ==
    /\ build = "pthread"
    /\ proc = "running"
    /\ \E r \in Rc :
          /\ IF mutex = "NULL"
             THEN r = EINVAL /\ UNCHANGED <<slot, owner>>
             ELSE ssh_pthread_mutex_destroy(r)
          /\ Finish("destroy", "api", t, mutex, r,
                    IF mutex = "NULL" \/ MutexFatal(r)
                    THEN "exit" ELSE "return", {})

\* either build of the library, no lock operation called yet
InitLocks ==
    /\ LibInit
    /\ build \in Builds
    /\ LockRest
    /\ PathRest

NextLocks ==
    \/ \E t \in Threads, a \in Args : CbInit(t, a)
    \/ \E t \in Threads, a \in Args : CbDestroy(t, a)
    \/ \E t \in Threads, a \in Args : CbLock(t, a)
    \/ \E t \in Threads, a \in Args : CbUnlock(t, a)
    \/ \E t \in Threads : CbThreadId(t)
    \/ \E t \in Threads, a \in Args : ssh_mutex_init(t, a)
    \/ \E t \in Threads, a \in Args : ssh_mutex_destroy(t, a)
    \/ \E t \in Threads, a \in Args : ssh_mutex_lock(t, a)
    \/ \E t \in Threads, a \in Args : ssh_mutex_unlock(t, a)

SpecLocks == InitLocks /\ [][NextLocks]_vars

----------------------------------------------------------------------------
\* the last operation was op on the handle through path, and the handle
\* was live when it was called
LastOn(op, path) ==
    last.op = op /\ last.path = path /\ last.arg = "&h" /\ last.live

(* C12: after ssh_mutex_init(h) succeeded, a ssh_mutex_lock(h) that        *)
(* returns has locked the lock object ssh_mutex_init stored in *h, for the *)
(* calling thread, and a ssh_mutex_unlock(h) that returns has unlocked it, *)
(* so that at most one thread is between a ssh_mutex_lock(h) that returned *)
(* and its ssh_mutex_unlock(h).                                            *)
C12_HandleLock ==
    /\ (LastOn("lock", "api") /\ last.end = "return") => owner = last.t
    /\ (LastOn("unlock", "api") /\ last.end = "return") => owner = 0
    /\ Cardinality(holders.api) <= 1

(* C13 as stated: on a live handle, with every backend and through         *)
(* ssh_mutex_lock / ssh_mutex_unlock as well, a lock call by the thread    *)
(* that holds the lock ends with a nonzero status (and ends the process    *)
(* when made through ssh_mutex_lock), and so does an unlock call by a      *)
(* thread that does not hold it.                                           *)
C13_Hygiene ==
    \A path \in {"cb", "api"} :
        /\ (LastOn("lock", path) /\ last.held) =>
              /\ last.rc # 0
              /\ path = "api" => last.end = "exit"
        /\ (LastOn("unlock", path) /\ ~last.held) =>
              /\ last.rc # 0
              /\ path = "api" => last.end = "exit"

(* C13 amended: on a live handle the mutex_lock callback of the pthread    *)
(* backend returns EDEADLK, and changes nothing, when the calling thread   *)
(* holds the lock, and its mutex_unlock callback returns EPERM, and        *)
(* changes nothing, when the calling thread does not hold it; the null     *)
(* backend rejects neither, its callbacks return 0.                        *)
C13_BackendHygiene ==
    /\ build = "pthread" =>
          /\ (LastOn("lock", "cb") /\ last.held) =>
                last.rc = EDEADLK /\ last.same /\ owner = last.t
          /\ (LastOn("unlock", "cb") /\ ~last.held) =>
                last.rc = EPERM /\ last.same /\ owner # last.t
          /\ slot = "obj" => \A t \in Threads : t \in holders.cb <=> owner = t
    /\ (build = "noop" /\ last.path = "cb" /\ last.op \in {"lock", "unlock"})
          => last.rc = 0

\* the pthread backend has just turned down the thread that holds the lock,
\* after it turned down nobody when the thread took it
C13_Witness ==
    /\ build = "pthread"
    /\ LastOn("lock", "cb")
    /\ last.held
    /\ last.rc = EDEADLK
    /\ holders.cb = {last.t}

(* C14: each of ssh_mutex_init, ssh_mutex_lock, ssh_mutex_unlock and       *)
(* ssh_mutex_destroy ends the process when its argument is NULL (with      *)
(* EINVAL, before anything is touched) or when the backend operation       *)
(* returned nonzero, returns only for a non-NULL argument when the backend *)
(* operation returned 0, and hands no value back.                          *)
C14_FailuresAreFatal ==
    /\ last.path = "api" =>
          /\ last.end = "exit" <=> (last.arg = "NULL" \/ last.rc # 0)
          /\ last.arg = "NULL" => last.rc = EINVAL /\ last.same
          /\ last.end = "return" => last.arg = "&h" /\ last.rc = 0
          /\ last.value = {}
    /\ proc = "exited" <=> last.end = "exit"

\* ssh_mutex_destroy of a mutex that is still locked: the backend returned
\* EBUSY and the process is gone
C14_Witness ==
    /\ last.path = "api"
    /\ last.op = "destroy"
    /\ last.arg = "&h"
    /\ last.rc = EBUSY
    /\ proc = "exited"

\* every callback of the backend returns 0 and changes nothing, whatever
\* its argument, and thread_id returns the constant
NullBackendCalls ==
    /\ slot = "NULL" /\ owner = 0
    /\ last.path = "cb" =>
          /\ last.rc = 0
          /\ last.end = "return"
          /\ last.same
          /\ last.op = "thread_id" => last.value = {1}
    /\ proc = "running"

(* C15 as stated: ssh_threads_get_default() returns the null backend,      *)
(* whose mutex_init, mutex_destroy, mutex_lock and mutex_unlock return 0   *)
(* for every argument and in every state without changing any state, and   *)
(* whose thread_id always returns the same constant.                       *)
C15_DefaultIsNull ==
    /\ ssh_threads_get_default = "threads_noop"
    /\ NullBackendCalls

(* C15 amended: in a build without HAVE_PTHREAD ssh_threads_get_default()  *)
(* returns the null backend, whose mutex_init, mutex_destroy, mutex_lock   *)
(* and mutex_unlock return 0 for every argument and in every state without *)
(* changing any state, and whose thread_id always returns 1; in a          *)
(* HAVE_PTHREAD build it returns the pthread backend.                      *)
C15_NullBackend ==
    /\ build = "noop" =>
          /\ ssh_threads_get_default = "threads_noop"
          /\ NullBackendCalls
    /\ build = "pthread" => ssh_threads_get_default = "threads_pthread"

\* the null backend has granted the lock to every thread at once, the last
\* of them asking with a handle nobody initialised
C15_Witness ==
    /\ build = "noop"
    /\ holders.cb = Threads
    /\ last.op = "lock"
    /\ last.arg = "&h"
    /\ ~made
    /\ last.rc = 0

----------------------------------------------------------------------------
(* _ssh_init and _ssh_finalize as functions of the library state, for a    *)
(* single thread: a call runs from its first statement to its return with  *)
(* nothing in between.  The state is a record: count is _ssh_initialized,  *)
(* ret is _ssh_init_ret, status is what the last call returned, trace the  *)
(* collaborator calls the last call made, acq and rel the number of times  *)
(* ssh_init_mutex has been locked and unlocked.                            *)

\* mutant: the mutex is taken whatever the argument
LockOps_Always(constructor) == 1

\* if (!constructor) { SSH_STATIC_MUTEX_LOCK(ssh_init_mutex); }  and the
\* same test before SSH_STATIC_MUTEX_UNLOCK: lock operations done
LockOps(constructor) == IF constructor = 0 THEN 1 ELSE 0

\* the statuses the three bring-up collaborators would return, in order
StatusVec == [DOMAIN BringUpOrder -> Status]

\* the bring-up of init.c:82-95 when collaborator i returns sts[i]: the
\* calls made, which stop at the first nonzero status, and the final rc
BringUpRun(sts) ==
    LET failing == {i \in DOMAIN BringUpOrder : Failed(sts[i])}
        k == IF failing = {} THEN Len(BringUpOrder)
             ELSE CHOOSE i \in failing : \A j \in failing : i <= j
    IN [trace |-> [i \in 1 .. k |-> [fn |-> BringUpOrder[i], st |-> sts[i]]],
        rc |-> sts[k]]

\* _ssh_init(constructor) on state s
RunInit(s, constructor, sts) ==
    LET n == s.count + 1
        run == IF Nested(n)
               THEN [trace |-> <<>>, rc |-> s.ret]
               ELSE BringUpRun(sts)
    IN [count |-> n, ret |-> run.rc, status |-> run.rc, trace |-> run.trace,
        acq |-> s.acq + LockOps(constructor),
        rel |-> s.rel + LockOps(constructor)]

\* the teardown of init.c:163-167, each call returning void
TeardownRun ==
    [i \in DOMAIN TeardownOrder |-> [fn |-> TeardownOrder[i], st |-> 0]]

\* _ssh_finalize(destructor) on state s
RunFinalize(s, destructor) ==
    [count |-> IF LastRef(s.count) THEN 0
               ELSE IF CanDecrement(s.count) THEN s.count - 1 ELSE s.count,
     ret |-> s.ret,
     status |-> 0,
     trace |-> IF LastRef(s.count) /\ ~SkipTeardown(s.ret)
               THEN TeardownRun ELSE <<>>,
     acq |-> s.acq + LockOps(destructor),
     rel |-> s.rel + LockOps(destructor)]

(* The same call made on both runs: explicitly on ref (ssh_init, argument  *)
(* 0), and on mix either explicitly or through the hook (auto_init,        *)
(* argument 1), the collaborators returning the same statuses in both.     *)
PathInit(hook, sts) ==
    /\ npath < MaxCalls
    /\ ref' = RunInit(ref, 0, sts)
    /\ mix' = RunInit(mix, hook, sts)
    /\ npath' = npath + 1
    /\ nhook' = nhook + hook
    /\ UNCHANGED <<initVars, lockVars>>

\* ssh_finalize on ref; ssh_finalize or auto_finalize on mix
PathFinalize(hook) ==
    /\ npath < MaxCalls
    /\ ref' = RunFinalize(ref, 0)
    /\ mix' = RunFinalize(mix, hook)
    /\ npath' = npath + 1
    /\ nhook' = nhook + hook
    /\ UNCHANGED <<initVars, lockVars>>

NextPaths ==
    \/ \E hook \in {0, 1}, sts \in StatusVec : PathInit(hook, sts)
    \/ \E hook \in {0, 1} : PathFinalize(hook)

SpecPaths == Init /\ [][NextPaths]_vars

====
